---- MODULE Spec2Model ----
(***************************************************************************)
(* Model of bia_integrator_core: the annotation merge engine               *)
(* (integrator.py, load_and_annotate_study) and the lazily cached          *)
(* ome_metadata accessor of BIAImage (models.py).                          *)
(*                                                                         *)
(* Objects live in a heap addressed by references, so that identity        *)
(* (same object, not a copy) is observable.  Every object is its pydantic  *)
(* __dict__: a mapping from attribute names to values.  A value is a       *)
(* tagged record so that a str written over a list stays distinguishable.  *)
(***************************************************************************)
EXTENDS Naturals, Sequences, FiniteSets

VARIABLES
    accession,    \* argument accession_id of load_and_annotate_study
    pc,           \* position inside load_and_annotate_study
    heap,         \* reference -> object (its class and its __dict__)
    study,        \* local `study` (a reference)
    annotations,  \* local `study_annotations` / `image_annotations`
    items,        \* the iterator of study.images.items(), as a sequence
    idx,          \* number of images the loop has finished
    additional,   \* local `additional_image_reps`
    ret,          \* value returned to the caller
    raised,       \* exception that left load_and_annotate_study
    callLog,      \* history: collaborator calls, in the order issued
    thrown,       \* history: the error a collaborator threw, and when
    retrieved,    \* history: what get_study returned
    expectS,      \* history: per key, last study annotation returned
    expectI,      \* history: per image and key, last image annotation returned
    fetched,      \* history: per image, what get_representations returned
    dups,         \* history: records whose annotation list overwrote a key
    nAccess,      \* number of ome_metadata accesses made by the caller
    acc,          \* history: the last ome_metadata access and its outcome
    fetchLog      \* history: the remote metadata fetches issued

vars == <<accession, pc, heap, study, annotations, items, idx, additional,
          ret, raised, callLog, thrown, retrieved, expectS, expectI, fetched,
          dups, nAccess, acc, fetchLog>>

(***************************************************************************)
(* Bounds                                                                  *)
(***************************************************************************)
MaxAnn == 2
MaxBefore == 1
MaxFetched == 1
MaxAccess == 2

(***************************************************************************)
(* Program constants                                                       *)
(***************************************************************************)
HttpOk == 200
HttpNotFound == 404

(***************************************************************************)
(* Input universes                                                         *)
(***************************************************************************)
Accessions == {"S-BIAD1", "S-BIAD2"}
ImageIds == {"IM1", "IM2"}
Keys == {"organism", "images", "dimensions", "representations", "ome_metadata"}
StudyAnnKeys == {"organism", "images", "dimensions"}
ImageAnnKeys == {"dimensions", "representations", "ome_metadata"}
Values == {"v1", "v2"}
CollaboratorErrors == {"NotFound", "NetworkError"}
Statuses == {HttpOk, HttpNotFound}

StudyDeclared == {"organism", "images"}
ImageDeclared == {"dimensions", "representations"}

Null == "null"
StudyRef == "obj_study"
ImageRef(id) == IF id = "IM1" THEN "obj_IM1" ELSE "obj_IM2"
FreshRef == "obj_fresh"
Refs == {StudyRef, FreshRef} \cup {ImageRef(id) : id \in ImageIds}

(***************************************************************************)
(* Values                                                                  *)
(***************************************************************************)
NoUri == [scheme |-> "", netloc |-> "", path |-> <<>>, query |-> ""]
Absent == [t |-> "absent", s |-> "", reps |-> <<>>, imgs |-> <<>>, uri |-> NoUri]
NoneVal == [t |-> "none", s |-> "", reps |-> <<>>, imgs |-> <<>>, uri |-> NoUri]
Str(x) == [t |-> "str", s |-> x, reps |-> <<>>, imgs |-> <<>>, uri |-> NoUri]
RepList(l) == [t |-> "list", s |-> "", reps |-> l, imgs |-> <<>>, uri |-> NoUri]
ImgMap(m) == [t |-> "dict", s |-> "", reps |-> <<>>, imgs |-> m, uri |-> NoUri]
Ome(u) == [t |-> "ome", s |-> "", reps |-> <<>>, imgs |-> <<>>, uri |-> u]

EmptyDict == [k \in Keys |-> Absent]
Unallocated == [cls |-> "none", d |-> EmptyDict]

UriA == [scheme |-> "https", netloc |-> "x", path |-> <<"a", "im.zarr">>, query |-> ""]
UriB == [scheme |-> "https", netloc |-> "x", path |-> <<"b", "im.zarr">>, query |-> "v=2"]
UriRaw == [scheme |-> "http", netloc |-> "x", path |-> <<"a">>, query |-> ""]
NgffA == [type |-> "ome_ngff", uri |-> UriA]
NgffB == [type |-> "ome_ngff", uri |-> UriB]
Raw == [type |-> "raw", uri |-> UriRaw]
Reps == {NgffA, NgffB, Raw}

SeqsUpTo(S, n) == UNION {[1..m -> S] : m \in 0..n}
AnnSeqs(K) == SeqsUpTo([key : K, value : Values], MaxAnn)

\* What the retrieval collaborators serve.  S-BIAD1 is a one-image study with
\* arbitrary (bounded) representation lists; S-BIAD2 is a fixed two-image
\* study whose image mapping was filled in the order IM2, IM1.
StoredImages(a) == IF a = "S-BIAD1" THEN <<"IM1">> ELSE <<"IM2", "IM1">>
BeforeChoices(a, id) ==
    IF a = "S-BIAD1" THEN SeqsUpTo(Reps, MaxBefore)
    ELSE IF id = "IM1" THEN {<<NgffA>>} ELSE {<<Raw>>}
FetchedChoices(a, id) ==
    IF a = "S-BIAD1" THEN SeqsUpTo(Reps, MaxFetched)
    ELSE IF id = "IM1" THEN {<<NgffB>>} ELSE {<<Raw>>}

(***************************************************************************)
(* Pure helpers                                                            *)
(***************************************************************************)
Max(S) == CHOOSE x \in S : \A y \in S : y <= x
Front(s) == SubSeq(s, 1, Len(s) - 1)
Last(s) == s[Len(s)]

\* integrator.py 13-15: annotations_dict, filled by one pass over the list.
RECURSIVE BuildDict(_)
BuildDict(anns) ==
    IF anns = <<>> THEN EmptyDict
    ELSE [BuildDict(Front(anns)) EXCEPT ![Last(anns).key] = Str(Last(anns).value)]

\* Mutant of DictUpdate: the record's __dict__ is replaced, not updated.
DictReplace(d, upd) == upd

\* integrator.py 16: dict.update.
DictUpdate(d, upd) == [k \in Keys |-> IF upd[k].t # "absent" THEN upd[k] ELSE d[k]]

\* Mutant of ApplyEach: an attribute that is already present is kept.
RECURSIVE ApplyEachFirstWins(_, _)
ApplyEachFirstWins(d, anns) ==
    IF anns = <<>> THEN d
    ELSE ApplyEachFirstWins(
             IF d[Head(anns).key].t = "absent"
                 THEN [d EXCEPT ![Head(anns).key] = Str(Head(anns).value)]
                 ELSE d,
             Tail(anns))

\* integrator.py 20-21: each image annotation is written in turn.
RECURSIVE ApplyEach(_, _)
ApplyEach(d, anns) ==
    IF anns = <<>> THEN d
    ELSE ApplyEach([d EXCEPT ![Head(anns).key] = Str(Head(anns).value)], Tail(anns))

\* Mutant of DictItems: the mapping is walked backwards.
RECURSIVE DictItemsReversed(_)
DictItemsReversed(m) ==
    IF m = <<>> THEN <<>> ELSE Append(DictItemsReversed(Tail(m)), Head(m))

\* integrator.py 18: dict.items() walks the mapping in insertion order.
DictItems(m) == m

\* Mutant of ImageTarget: the annotation lands on the study record.
ImageTargetStudy(h, s, id) == s

\* integrator.py 21: study.images[image_id].
ImageTarget(h, s, id) ==
    LET m == h[s].d["images"].imgs
    IN  m[CHOOSE j \in 1..Len(m) : m[j].id = id].ref

\* Mutant of ReturnValue: a copy of the study is returned.
ReturnCopy(s) == FreshRef

\* integrator.py 25: return study.
ReturnValue(s) == s

\* The reference values the claims speak of: the LAST annotation with key k.
LastValue(anns, k) ==
    LET S == {j \in 1..Len(anns) : anns[j].key = k}
    IN  IF S = {} THEN Absent ELSE Str(anns[Max(S)].value)
LastValues(anns) == [k \in Keys |-> LastValue(anns, k)]
HasDup(anns) ==
    \E i, j \in 1..Len(anns) :
        i < j /\ anns[i].key = anns[j].key /\ anns[i].value # anns[j].value

\* What get_study builds: a BIAStudy and its BIAImage objects.
NewStudy(a) ==
    [cls |-> "BIAStudy",
     d |-> [EmptyDict EXCEPT
              !["organism"] = Str("v0"),
              !["images"] = ImgMap([j \in 1..Len(StoredImages(a)) |->
                               [id |-> StoredImages(a)[j],
                                ref |-> ImageRef(StoredImages(a)[j])]])]]
NewImage(before) ==
    [cls |-> "BIAImage",
     d |-> [EmptyDict EXCEPT
              !["dimensions"] = NoneVal,
              !["representations"] = RepList(before)]]

NoStudy == [ref |-> Null, imgs |-> <<>>, before |-> [i \in ImageIds |-> <<>>]]
NoThrow == [err |-> "", at |-> 0]
NoAccess == [img |-> Null, outcome |-> "none", value |-> Absent,
             remote |-> FALSE, uri |-> NoUri]

Cur == items[idx + 1]
Call(fn, img) == [fn |-> fn, img |-> img]

(***************************************************************************)
(* Initial state: nothing loaded yet.                                      *)
(***************************************************************************)
Init ==
    /\ accession \in Accessions
    /\ pc = "start"
    /\ heap = [r \in Refs |-> Unallocated]
    /\ study = Null
    /\ annotations = <<>>
    /\ items = <<>>
    /\ idx = 0
    /\ additional = <<>>
    /\ ret = Null
    /\ raised = ""
    /\ callLog = <<>>
    /\ thrown = NoThrow
    /\ retrieved = NoStudy
    /\ expectS = EmptyDict
    /\ expectI = [i \in ImageIds |-> EmptyDict]
    /\ fetched = [i \in ImageIds |-> Absent]
    /\ dups = {}
    /\ nAccess = 0
    /\ acc = NoAccess
    /\ fetchLog = <<>>

\* Mutant of Raise: the error is swallowed and the study is returned anyway.
RaiseSwallowed(e) == pc' = "return" /\ raised' = "" /\ ret' = ret

\* integrator.py has no try/except: an exception leaves the function at once.
Raise(e) == pc' = "raised" /\ raised' = e /\ ret' = Null

\* A collaborator call that throws e.
Throws(fn, img, e) ==
    /\ callLog' = Append(callLog, Call(fn, img))
    /\ thrown' = [err |-> e, at |-> Len(callLog) + 1]
    /\ Raise(e)

\* integrator.py 10
GetStudy ==
    /\ pc = "start"
    /\ \/ \E e \in CollaboratorErrors :
            /\ Throws("get_study", "", e)
            /\ UNCHANGED <<accession, heap, study, annotations, items, idx,
                           additional, retrieved, expectS, expectI, fetched, dups,
                           nAccess, acc, fetchLog>>
       \/ \E b \in [ImageIds -> SeqsUpTo(Reps, MaxBefore) \cup {<<NgffA>>, <<Raw>>}] :
            /\ \A i \in ImageIds : b[i] \in BeforeChoices(accession, i)
            /\ \A i \in ImageIds :
                 (\A j \in 1..Len(StoredImages(accession)) :
                      StoredImages(accession)[j] # i) => b[i] = <<>>
            /\ callLog' = Append(callLog, Call("get_study", ""))
            /\ heap' = [r \in Refs |->
                          IF r = StudyRef THEN NewStudy(accession)
                          ELSE IF \E j \in 1..Len(StoredImages(accession)) :
                                      ImageRef(StoredImages(accession)[j]) = r
                               THEN NewImage(b[CHOOSE i \in ImageIds : ImageRef(i) = r])
                               ELSE Unallocated]
            /\ study' = StudyRef
            /\ retrieved' = [ref |-> StudyRef,
                             imgs |-> NewStudy(accession).d["images"].imgs,
                             before |-> b]
            /\ pc' = "get_study_annotations"
            /\ UNCHANGED <<accession, annotations, items, idx, additional, ret,
                           raised, thrown, expectS, expectI, fetched, dups, nAccess,
                           acc, fetchLog>>

\* integrator.py 12
GetStudyAnnotations ==
    /\ pc = "get_study_annotations"
    /\ \/ \E e \in CollaboratorErrors :
            /\ Throws("get_study_annotations", "", e)
            /\ UNCHANGED <<accession, heap, study, annotations, items, idx,
                           additional, retrieved, expectS, expectI, fetched, dups,
                           nAccess, acc, fetchLog>>
       \/ \E l \in AnnSeqs(StudyAnnKeys) :
            /\ callLog' = Append(callLog, Call("get_study_annotations", ""))
            /\ annotations' = l
            /\ expectS' = LastValues(l)
            /\ dups' = IF HasDup(l) THEN dups \cup {"study"} ELSE dups
            /\ pc' = "merge_study"
            /\ UNCHANGED <<accession, heap, study, items, idx, additional, ret,
                           raised, thrown, retrieved, expectI, fetched, nAccess,
                           acc, fetchLog>>

\* integrator.py 13-16
MergeStudyAnnotations ==
    /\ pc = "merge_study"
    /\ heap' = [heap EXCEPT ![study].d = DictUpdate(@, BuildDict(annotations))]
    /\ annotations' = <<>>
    /\ pc' = "enter_loop"
    /\ UNCHANGED <<accession, study, items, idx, additional, ret, raised,
                   callLog, thrown, retrieved, expectS, expectI, fetched, dups,
                   nAccess, acc, fetchLog>>

\* integrator.py 18: study.images.items() is evaluated once.
EnterLoop ==
    /\ pc = "enter_loop"
    /\ IF heap[study].d["images"].t = "dict"
         THEN /\ items' = DictItems(heap[study].d["images"].imgs)
              /\ pc' = "next_image"
              /\ UNCHANGED <<ret, raised>>
         ELSE /\ Raise("AttributeError")
              /\ UNCHANGED items
    /\ UNCHANGED <<accession, heap, study, annotations, idx, additional,
                   callLog, thrown, retrieved, expectS, expectI, fetched, dups,
                   nAccess, acc, fetchLog>>

\* integrator.py 18: the iterator yields the next (image_id, image) or ends.
NextImage ==
    /\ pc = "next_image"
    /\ pc' = IF idx < Len(items) THEN "get_image_annotations" ELSE "return"
    /\ UNCHANGED <<accession, heap, study, annotations, items, idx, additional,
                   ret, raised, callLog, thrown, retrieved, expectS, expectI,
                   fetched, dups, nAccess, acc, fetchLog>>

\* integrator.py 19
GetImageAnnotations ==
    /\ pc = "get_image_annotations"
    /\ \/ \E e \in CollaboratorErrors :
            /\ Throws("get_image_annotations", Cur.id, e)
            /\ UNCHANGED <<accession, heap, study, annotations, items, idx,
                           additional, retrieved, expectS, expectI, fetched, dups,
                           nAccess, acc, fetchLog>>
       \/ \E l \in AnnSeqs(ImageAnnKeys) :
            /\ callLog' = Append(callLog, Call("get_image_annotations", Cur.id))
            /\ annotations' = l
            /\ expectI' = [expectI EXCEPT ![Cur.id] = LastValues(l)]
            /\ dups' = IF HasDup(l) THEN dups \cup {Cur.id} ELSE dups
            /\ pc' = "apply_image"
            /\ UNCHANGED <<accession, heap, study, items, idx, additional, ret,
                           raised, thrown, retrieved, expectS, fetched, nAccess,
                           acc, fetchLog>>

\* integrator.py 20-21
ApplyImageAnnotations ==
    /\ pc = "apply_image"
    /\ heap' = [heap EXCEPT ![ImageTarget(heap, study, Cur.id)].d =
                                ApplyEach(@, annotations)]
    /\ annotations' = <<>>
    /\ pc' = "get_representations"
    /\ UNCHANGED <<accession, study, items, idx, additional, ret, raised,
                   callLog, thrown, retrieved, expectS, expectI, fetched, dups,
                   nAccess, acc, fetchLog>>

\* integrator.py 22
GetRepresentations ==
    /\ pc = "get_representations"
    /\ \/ \E e \in CollaboratorErrors :
            /\ Throws("get_representations", Cur.id, e)
            /\ UNCHANGED <<accession, heap, study, annotations, items, idx,
                           additional, retrieved, expectS, expectI, fetched, dups,
                           nAccess, acc, fetchLog>>
       \/ \E l \in FetchedChoices(accession, Cur.id) :
            /\ callLog' = Append(callLog, Call("get_representations", Cur.id))
            /\ additional' = l
            /\ fetched' = [fetched EXCEPT ![Cur.id] = RepList(l)]
            /\ pc' = "append"
            /\ UNCHANGED <<accession, heap, study, annotations, items, idx, ret,
                           raised, thrown, retrieved, expectS, expectI, dups, nAccess,
                           acc, fetchLog>>

\* integrator.py 23: image.representations += additional_image_reps.
\* A str on the left makes the += raise TypeError.
AppendRepresentations ==
    /\ pc = "append"
    /\ IF heap[Cur.ref].d["representations"].t = "list"
         THEN /\ heap' = [heap EXCEPT ![Cur.ref].d["representations"] =
                              RepList(@.reps \o additional)]
              /\ idx' = idx + 1
              /\ pc' = "next_image"
              /\ UNCHANGED <<ret, raised>>
         ELSE /\ Raise("TypeError")
              /\ UNCHANGED <<heap, idx>>
    /\ additional' = <<>>
    /\ UNCHANGED <<accession, study, annotations, items, callLog, thrown,
                   retrieved, expectS, expectI, fetched, dups, nAccess, acc, fetchLog>>

\* integrator.py 25
ReturnStudy ==
    /\ pc = "return"
    /\ ret' = ReturnValue(study)
    /\ pc' = "done"
    /\ UNCHANGED <<accession, heap, study, annotations, items, idx, additional,
                   raised, callLog, thrown, retrieved, expectS, expectI, fetched, dups,
                   nAccess, acc, fetchLog>>

(***************************************************************************)
(* BIAImage.ome_metadata (models.py 98-129)                                *)
(***************************************************************************)
\* models.py 102: the representations whose type is "ome_ngff", in list order.
NgffReps(reps) == SelectSeq(reps, LAMBDA r : r.type = "ome_ngff")

\* Mutant of Pop: the first element is taken.
PopFirst(l) == Head(l)

\* models.py 107: list.pop() takes the last element.
Pop(l) == l[Len(l)]

\* models.py 109: Path(path).parent.
Parent(path) == IF path = <<>> THEN <<>> ELSE SubSeq(path, 1, Len(path) - 1)

\* models.py 108-115: the sibling OME/METADATA.ome.xml, query dropped.
MetadataUri(u) ==
    [scheme |-> u.scheme, netloc |-> u.netloc,
     path |-> Parent(u.path) \o <<"OME", "METADATA.ome.xml">>, query |-> ""]

\* Mutant of StoreMetadata: the parsed metadata is not kept.
StoreNothing(d, m) == d

\* models.py 118: self.__dict__['ome_metadata'] = metadata.
StoreMetadata(d, m) == [d EXCEPT !["ome_metadata"] = m]

\* models.py 100: self.__dict__.get('ome_metadata', None).
CachedMetadata(d) == IF d["ome_metadata"].t = "absent" THEN NoneVal ELSE d["ome_metadata"]

\* The images the caller can reach from the study it was handed.
ReturnedImages ==
    IF pc = "done" /\ ret # Null /\ heap[ret].d["images"].t = "dict"
        THEN {heap[ret].d["images"].imgs[j].ref :
                  j \in 1..Len(heap[ret].d["images"].imgs)}
        ELSE {}

Returned(r, v) ==
    acc' = [img |-> r, outcome |-> "returned", value |-> v, remote |-> FALSE,
            uri |-> NoUri]

\* One read of image.ome_metadata by the caller of load_and_annotate_study.
AccessOmeMetadata ==
    /\ nAccess < MaxAccess
    /\ \E r \in ReturnedImages :
         LET d == heap[r].d
             metadata == CachedMetadata(d)
             ngff == NgffReps(d["representations"].reps)
         IN  IF metadata.t # "none"
               THEN Returned(r, metadata) /\ UNCHANGED <<heap, fetchLog>>
             ELSE IF ngff = <<>>
               THEN Returned(r, NoneVal) /\ UNCHANGED <<heap, fetchLog>>
             ELSE \E status \in Statuses :
                    LET u == MetadataUri(Pop(ngff).uri)
                    IN  /\ fetchLog' = Append(fetchLog,
                                 [img |-> r, uri |-> u, status |-> status])
                        /\ IF status = HttpOk
                             THEN /\ heap' = [heap EXCEPT ![r].d =
                                                  StoreMetadata(@, Ome(u))]
                                  /\ acc' = [img |-> r, outcome |-> "returned",
                                             value |-> Ome(u), remote |-> TRUE,
                                             uri |-> u]
                             ELSE /\ heap' = heap
                                  /\ acc' = [img |-> r, outcome |-> "raised",
                                             value |-> Absent, remote |-> TRUE,
                                             uri |-> u]
    /\ nAccess' = nAccess + 1
    /\ UNCHANGED <<accession, pc, study, annotations, items, idx, additional,
                   ret, raised, callLog, thrown, retrieved, expectS, expectI,
                   fetched, dups>>

Next ==
    \/ GetStudy
    \/ GetStudyAnnotations
    \/ MergeStudyAnnotations
    \/ EnterLoop
    \/ NextImage
    \/ GetImageAnnotations
    \/ ApplyImageAnnotations
    \/ GetRepresentations
    \/ AppendRepresentations
    \/ ReturnStudy
    \/ AccessOmeMetadata

Spec == Init /\ [][Next]_vars

(***************************************************************************)
(* Properties                                                              *)
(***************************************************************************)
RepsOf(r) == heap[r].d["representations"]
NumImages == Len(retrieved.imgs)
ImgAt(j) == retrieved.imgs[j]
BeforePlusFetched(id) == RepList(retrieved.before[id] \o fetched[id].reps)
AppendRan(j) == j <= idx \/ (raised = "TypeError" /\ j = idx + 1)
Carries(d, expect) == \A k \in Keys : expect[k].t # "absent" => d[k] = expect[k]
NgffIndexes(l) == {i \in 1..Len(l) : l[i].type = "ome_ngff"}
Min(S) == CHOOSE x \in S : \A y \in S : x <= y
HasCalled(fn, id) == \E n \in 1..Len(callLog) : callLog[n] = Call(fn, id)

RECURSIVE ExpectedCalls(_)
ExpectedCalls(m) ==
    IF m = <<>> THEN <<Call("get_study", ""), Call("get_study_annotations", "")>>
    ELSE ExpectedCalls(Front(m)) \o
             <<Call("get_image_annotations", Last(m).id),
               Call("get_representations", Last(m).id)>>

\* C1: once load_and_annotate_study has returned, the study record and every
\* image record carry, for every key of the annotation list returned for that
\* record, the value of the LAST annotation with that key, declared field or not.
C1_LastAnnotationWins ==
    pc = "done" =>
        /\ Carries(heap[retrieved.ref].d, expectS)
        /\ \A j \in 1..NumImages : Carries(heap[ImgAt(j).ref].d, expectI[ImgAt(j).id])

\* C1 witness: a finished run in which the study list and an image list each
\* overwrote a key, one a declared field and one a dynamic attribute.
C1_Witness ==
    /\ pc = "done"
    /\ "study" \in dups
    /\ "IM1" \in dups
    /\ heap[StudyRef].d["organism"] = Str("v2")
    /\ heap[ImageRef("IM1")].d["ome_metadata"] = Str("v1")

\* C2: for every image whose representations were fetched and whose append
\* step ran, the image's representation list is the list get_study delivered
\* followed by the fetched list, whatever the annotations were.
C2_RepresentationsAppended ==
    \A j \in 1..NumImages :
        AppendRan(j) => RepsOf(ImgAt(j).ref) = BeforePlusFetched(ImgAt(j).id)

\* C3 as stated: every metadata fetch goes to the URI derived from the FIRST
\* "ome_ngff" representation of the image.
C3_FirstNgff ==
    \A n \in 1..Len(fetchLog) :
        LET l == RepsOf(fetchLog[n].img).reps
        IN  fetchLog[n].uri = MetadataUri(l[Min(NgffIndexes(l))].uri)

\* C3 amended: every metadata fetch goes to the URI derived from the LAST
\* "ome_ngff" representation of the image, and an access that fetched reports
\* that same URI.
C3_LastNgff ==
    /\ \A n \in 1..Len(fetchLog) :
         LET l == RepsOf(fetchLog[n].img).reps
         IN  /\ NgffIndexes(l) # {}
             /\ fetchLog[n].uri = MetadataUri(l[Max(NgffIndexes(l))].uri)
    /\ acc.remote => /\ fetchLog # <<>>
                     /\ Last(fetchLog).img = acc.img
                     /\ Last(fetchLog).uri = acc.uri

\* C3 witness: a fetch was issued for an image holding two "ome_ngff"
\* representations with different URIs.
C3_Witness ==
    \E n \in 1..Len(fetchLog) :
        LET l == RepsOf(fetchLog[n].img).reps
        IN  /\ Cardinality(NgffIndexes(l)) >= 2
            /\ l[Min(NgffIndexes(l))].uri # l[Max(NgffIndexes(l))].uri

\* C4: an access to ome_metadata on an image with no "ome_ngff" representation
\* returns None and issues no fetch.
C4_NoNgffReturnsNone ==
    (acc.outcome # "none" /\ NgffIndexes(RepsOf(acc.img).reps) = {}) =>
        /\ acc.outcome = "returned"
        /\ acc.value = NoneVal
        /\ ~acc.remote
        /\ \A n \in 1..Len(fetchLog) : fetchLog[n].img # acc.img

\* C5: no fetch is issued for an image after a successful fetch for it, and
\* from then on every access returns the stored metadata.
C5_FetchedAtMostOnce ==
    \A n \in 1..Len(fetchLog) :
        fetchLog[n].status = HttpOk =>
            /\ \A m \in 1..Len(fetchLog) :
                 (m > n) => fetchLog[m].img # fetchLog[n].img
            /\ heap[fetchLog[n].img].d["ome_metadata"] = Ome(fetchLog[n].uri)
            /\ acc.img = fetchLog[n].img =>
                 acc.outcome = "returned" /\ acc.value = Ome(fetchLog[n].uri)

\* C5 witness: a second access to an image whose metadata was fetched
\* successfully is answered without a fetch.
C5_Witness ==
    /\ nAccess >= 2
    /\ ~acc.remote
    /\ \E n \in 1..Len(fetchLog) :
         fetchLog[n].img = acc.img /\ fetchLog[n].status = HttpOk

\* C6: when a collaborator call fails, that call is the last one made, the
\* same error reaches the caller, and no study is returned or reachable.
C6_FailureStopsAndPropagates ==
    thrown.err # "" =>
        /\ pc = "raised"
        /\ raised = thrown.err
        /\ ret = Null
        /\ Len(callLog) = thrown.at
        /\ ReturnedImages = {}
        /\ nAccess = 0

\* C6 witness: get_representations fails for the second image after the study
\* and the first image were already merged.
C6_Witness ==
    /\ thrown.err = "NetworkError"
    /\ Last(callLog) = Call("get_representations", "IM1")
    /\ idx = 1
    /\ heap[StudyRef].d["organism"] = Str("v1")
    /\ heap[ImageRef("IM2")].d["dimensions"] = Str("v2")

\* C7: the collaborator calls are get_study, get_study_annotations, then per
\* image in insertion order get_image_annotations and get_representations,
\* each once; the study annotations are on the study before any image is
\* queried, and an image's representations are appended before the next
\* image is queried.
C7_CallOrder ==
    /\ retrieved.ref # Null =>
         /\ Len(callLog) <= Len(ExpectedCalls(retrieved.imgs))
         /\ callLog = SubSeq(ExpectedCalls(retrieved.imgs), 1, Len(callLog))
    /\ pc = "done" => callLog = ExpectedCalls(retrieved.imgs)
    /\ \A j \in 1..NumImages :
         HasCalled("get_image_annotations", ImgAt(j).id) =>
             /\ Carries(heap[retrieved.ref].d, expectS)
             /\ \A i \in 1..(j - 1) :
                  RepsOf(ImgAt(i).ref) = BeforePlusFetched(ImgAt(i).id)

\* C7 witness: a successful run over the two-image study.
C7_Witness ==
    /\ pc = "done"
    /\ NumImages = 2
    /\ Len(callLog) = 6
    /\ callLog[3] = Call("get_image_annotations", "IM2")
    /\ callLog[6] = Call("get_representations", "IM1")

\* C8: the value returned is the reference get_study returned, and its image
\* mapping holds the image references it held on retrieval.
C8_SameIdentity ==
    pc = "done" =>
        /\ ret = retrieved.ref
        /\ heap[ret].cls = "BIAStudy"
        /\ heap[ret].d["images"] = ImgMap(retrieved.imgs)
        /\ \A j \in 1..NumImages : heap[ImgAt(j).ref].cls = "BIAImage"

\* C8 witness: a returned study whose own record and whose image were mutated.
C8_Witness ==
    /\ pc = "done"
    /\ ret = StudyRef
    /\ heap[ret].d["organism"] = Str("v1")
    /\ heap[ImageRef("IM1")].d["dimensions"] = Str("v2")
    /\ Len(RepsOf(ImageRef("IM1")).reps) = 2

\* C9: merging an empty study annotation list leaves the study's declared
\* fields as they were; applying an empty image annotation list leaves that
\* image's declared fields as they were, and at the end such an image differs
\* from the retrieved one only by the appended representations.
C9_EmptyListKeepsDeclaredFields ==
    /\ [][/\ (pc = "merge_study" /\ annotations = <<>>) =>
               \A k \in StudyDeclared : heap'[study].d[k] = heap[study].d[k]
          /\ (pc = "apply_image" /\ annotations = <<>>) =>
               \A k \in ImageDeclared : heap'[Cur.ref].d[k] = heap[Cur.ref].d[k]]_vars
    /\ [](pc = "done" =>
            \A j \in 1..NumImages :
                (expectI[ImgAt(j).id] = EmptyDict /\ nAccess = 0) =>
                    heap[ImgAt(j).ref] =
                        [NewImage(retrieved.before[ImgAt(j).id]) EXCEPT
                            !.d["representations"] = BeforePlusFetched(ImgAt(j).id)])

\* C9 witness: both the study list and the current image's list came back
\* empty and have been applied.
C9_Witness ==
    /\ pc = "get_representations"
    /\ expectS = EmptyDict
    /\ expectI[Cur.id] = EmptyDict
    /\ heap[study].d["organism"] = Str("v0")
    /\ heap[Cur.ref].d["dimensions"] = NoneVal

\* C10: with distinct image ids bound to distinct objects, the steps that
\* process an image change no object but that image, the retrieval and loop
\* steps change no object, and the study merge changes only the study.
C10_OnlyCurrentImageChanges ==
    [][(\A i, j \in 1..NumImages : i # j => ImgAt(i).ref # ImgAt(j).ref) =>
          /\ pc \in {"apply_image", "append"} =>
               \A r \in Refs \ {Cur.ref} : heap'[r] = heap[r]
          /\ pc = "merge_study" =>
               \A r \in Refs \ {study} : heap'[r] = heap[r]
          /\ pc \in {"get_study_annotations", "enter_loop", "next_image",
                     "get_image_annotations", "get_representations",
                     "return"} => heap' = heap]_vars

\* C10 witness: the first image of the two-image study has been annotated and
\* extended while the second is still as retrieved.
C10_Witness ==
    /\ NumImages = 2
    /\ pc = "next_image"
    /\ idx = 1
    /\ heap[ImageRef("IM2")].d["dimensions"] = Str("v1")
    /\ RepsOf(ImageRef("IM2")) = RepList(<<Raw, Raw>>)
    /\ heap[ImageRef("IM1")] = NewImage(<<NgffA>>)
    /\ heap[StudyRef].d["dimensions"] = Str("v2")

====
